---- MODULE Spec2Model ----
(***************************************************************************)
(* Monte Carlo option pricing (price_options) and its fan-out over a       *)
(* (strike, sigma) grid through an IPython.parallel load-balanced view.    *)
(*                                                                         *)
(* float64 values are kept as fixed-point integers in units of 1/Scale,    *)
(* with a finite range FMax and the three IEEE special values +inf, -inf   *)
(* and nan, so that underflow to 0.0, overflow to inf and 0.0*inf = nan    *)
(* happen as they do in the code, at a smaller magnitude.                  *)
(*                                                                         *)
(* The notebook's cells run once, top to bottom; a cell that raises ends   *)
(* the run.  The engines behind the view go on whatever the notebook does. *)
(***************************************************************************)
EXTENDS Integers, Sequences, FiniteSets, TLC

\* ------------------------------------------------------------- bounds
\* fixed-point resolution: 1.0 is Scale units
Scale == 16
\* largest finite magnitude, in units (the float range)
FMax == 512
\* largest horizon and path count a single price_options call is explored with
MaxDays == 2
MaxPaths == 2
\* most draws (days times paths) one explored call consumes
MaxDraws == 4
\* largest grid explored by the dispatcher
MaxStrikes == 3
MaxSigmas == 3
MaxTasks == 6
\* engine failures the executor may report in one run
MaxFailures == 2
\* most engines the MPI view is explored with
MaxEngines == 3

\* ------------------------------------------------------ float64 values
PInf == FMax + 1
NInf == 0 - (FMax + 1)
NaN == FMax + 2

IsNaN(x) == x = NaN
IsInf(x) == x = PInf \/ x = NInf
IsFinite(x) == ~IsNaN(x) /\ ~IsInf(x)

Abs(x) == IF x < 0 THEN 0 - x ELSE x
Sign(x) == IF x < 0 THEN 0 - 1 ELSE IF x > 0 THEN 1 ELSE 0

\* integer quotient truncated toward zero (a result too small to represent is 0)
TruncDiv(a, n) == Sign(a) * Sign(n) * (Abs(a) \div Abs(n))

\* an exact result brought into the float range: overflow gives +-inf
Norm(x) == IF x > FMax THEN PInf ELSE IF x < 0 - FMax THEN NInf ELSE x

FNeg(a) == IF IsNaN(a) THEN NaN ELSE 0 - a

FAdd(a, b) ==
    IF IsNaN(a) \/ IsNaN(b) THEN NaN
    ELSE IF IsInf(a) /\ IsInf(b) THEN (IF a = b THEN a ELSE NaN)
    ELSE IF IsInf(a) THEN a
    ELSE IF IsInf(b) THEN b
    ELSE Norm(a + b)

FSub(a, b) == FAdd(a, FNeg(b))

FMul(a, b) ==
    IF IsNaN(a) \/ IsNaN(b) THEN NaN
    ELSE IF IsInf(a) \/ IsInf(b)
         THEN (IF a = 0 \/ b = 0 THEN NaN
               ELSE IF Sign(a) * Sign(b) > 0 THEN PInf ELSE NInf)
    ELSE Norm(TruncDiv(a * b, Scale))

\* a float divided by a non-zero Python int
FDivInt(a, n) ==
    IF IsNaN(a) THEN NaN
    ELSE IF IsInf(a) THEN (IF Sign(a) * Sign(n) > 0 THEN PInf ELSE NInf)
    ELSE TruncDiv(a, n)

\* a float multiplied by a Python int
FMulInt(a, n) ==
    IF IsNaN(a) THEN NaN
    ELSE IF IsInf(a)
         THEN (IF n = 0 THEN NaN ELSE IF Sign(a) * Sign(n) > 0 THEN PInf ELSE NInf)
    ELSE Norm(a * n)

\* np.maximum: the larger element, nan if either is nan
FMaximum(a, b) ==
    IF IsNaN(a) \/ IsNaN(b) THEN NaN ELSE IF a >= b THEN a ELSE b

\* the sum of the terms x^n/n! from term number n on, cut off at the float range
RECURSIVE ExpSeries(_, _, _)
ExpSeries(x, term, n) ==
    IF term = 0 THEN 0
    ELSE IF term > FMax THEN FMax + 1
    ELSE LET rest == ExpSeries(x, (term * x) \div (n * Scale), n + 1)
         IN  IF term + rest > FMax THEN FMax + 1 ELSE term + rest

\* e^x for a finite x: +inf on overflow, 0 on underflow
ExpFx(x) ==
    IF x >= 0 THEN Norm(ExpSeries(x, Scale, 1))
    ELSE LET d == ExpSeries(0 - x, Scale, 1)
         IN  IF d > FMax THEN 0 ELSE (Scale * Scale) \div d

\* np.exp: elementwise, overflow gives inf
NpExp(x) ==
    IF IsNaN(x) THEN NaN
    ELSE IF x = PInf THEN PInf
    ELSE IF x = NInf THEN 0
    ELSE ExpFx(x)

\* the largest s with s*s <= x*Scale: the square root of a finite x >= 0
RECURSIVE SqrtFrom(_, _)
SqrtFrom(x, s) == IF (s + 1) * (s + 1) > x * Scale THEN s ELSE SqrtFrom(x, s + 1)
SqrtFx(x) == SqrtFrom(x, 0)


\* math.exp raises OverflowError where np.exp returns inf
MathExpRaises(x) == IsFinite(x) /\ ExpFx(x) = PInf

\* ------------------------------------------------------- price_options
\* elementwise operations on float64 arrays (sequences of floats)
ArrMul(a, b) == [p \in 1..Len(a) |-> FMul(a[p], b[p])]
ArrAdd(a, b) == [p \in 1..Len(a) |-> FAdd(a[p], b[p])]

RECURSIVE ArrSum(_)
ArrSum(a) == IF a = <<>> THEN 0 ELSE FAdd(ArrSum(SubSeq(a, 1, Len(a) - 1)), a[Len(a)])

\* np.mean: the sum over the length; nan for an empty array
NpMean(a) == IF Len(a) = 0 THEN NaN ELSE FDivInt(ArrSum(a), Len(a))

\* lines 606-608: h, const1, const2, or the exception the line raises
POSetup(a) ==
    IF a.days = 0 THEN [err |-> "ZeroDivisionError", h |-> 0, const1 |-> 0, const2 |-> 0]
    ELSE LET h == TruncDiv(Scale, a.days)
             sq == Norm(TruncDiv(a.sigma * a.sigma, Scale))
             x == FMul(FSub(a.r, FMul(Scale \div 2, sq)), h)
         IN  IF IsInf(sq) \/ MathExpRaises(x)
             THEN [err |-> "OverflowError", h |-> h, const1 |-> 0, const2 |-> 0]
             ELSE IF h < 0
             THEN [err |-> "ValueError", h |-> h, const1 |-> NpExp(x), const2 |-> 0]
             ELSE [err |-> "none", h |-> h, const1 |-> NpExp(x),
                   const2 |-> FMul(a.sigma, SqrtFx(h))]

\* faulty variant: a negative length gives an empty array
POAllocNeverRaises(a) == FALSE

\* lines 609-610: the two buffers, or ValueError for a negative length
POAllocRaises(a) == a.paths < 0
POStockPrice0(a) == [p \in 1..a.paths |-> a.S]
POStockPriceSum0(a) == [p \in 1..a.paths |-> 0]

\* faulty variant: the draw is added to const2 instead of scaled by it
GrowthFactorAdditive(const1, const2, z) ==
    [p \in 1..Len(z) |-> FMul(const1, NpExp(FAdd(const2, FMulInt(Scale, z[p]))))]

\* line 612: the growth factor of every path for one step's draws z
GrowthFactor(const1, const2, z) ==
    [p \in 1..Len(z) |-> FMul(const1, NpExp(FMulInt(const2, z[p])))]

\* faulty variant: the running sum is overwritten by the updated price
POStepSumOverwrites(sps, spNew) == spNew

\* lines 613-614: one step of the loop
POStepPrice(sp, const1, const2, z) == ArrMul(sp, GrowthFactor(const1, const2, z))
POStepSum(sps, spNew) == ArrAdd(sps, spNew)

\* line 617
PODiscountArg(a, h) == FMulInt(FMul(FNeg(a.r), h), a.days)

\* discounted mean payoff: r_factor*np.mean(np.maximum(zeros, payoff))
Discounted(rf, payoff) ==
    FMul(rf, NpMean([p \in 1..Len(payoff) |-> FMaximum(0, payoff[p])]))

\* faulty variant: the tuple is returned puts first
POQuotePutsFirst(a, h, sp, sps) ==
    LET avg == [p \in 1..Len(sps) |-> FDivInt(sps[p], a.days)]
        rf == NpExp(PODiscountArg(a, h))
        euro_put == Discounted(rf, [p \in 1..Len(sp) |-> FSub(a.K, sp[p])])
        asian_put == Discounted(rf, [p \in 1..Len(sp) |-> FSub(a.K, avg[p])])
        euro_call == Discounted(rf, [p \in 1..Len(sp) |-> FSub(sp[p], a.K)])
        asian_call == Discounted(rf, [p \in 1..Len(sp) |-> FSub(avg[p], a.K)])
    IN  <<euro_put, euro_call, asian_put, asian_call>>

\* lines 615-622: the returned tuple (euro_call, euro_put, asian_call, asian_put)
POQuote(a, h, sp, sps) ==
    LET avg == [p \in 1..Len(sps) |-> FDivInt(sps[p], a.days)]
        rf == NpExp(PODiscountArg(a, h))
        euro_put == Discounted(rf, [p \in 1..Len(sp) |-> FSub(a.K, sp[p])])
        asian_put == Discounted(rf, [p \in 1..Len(sp) |-> FSub(a.K, avg[p])])
        euro_call == Discounted(rf, [p \in 1..Len(sp) |-> FSub(sp[p], a.K)])
        asian_call == Discounted(rf, [p \in 1..Len(sp) |-> FSub(avg[p], a.K)])
    IN  <<euro_call, euro_put, asian_call, asian_put>>

\* the loop of lines 611-614 from step j on, over the draws Z[j][p]
RECURSIVE POLoop(_, _, _, _, _, _)
POLoop(sp, sps, const1, const2, Z, j) ==
    IF j > Len(Z) THEN <<sp, sps>>
    ELSE LET spNew == POStepPrice(sp, const1, const2, Z[j])
         IN  POLoop(spNew, POStepSum(sps, spNew), const1, const2, Z, j + 1)

\* a whole call of price_options with the draws Z: [err, quote]
PriceOptions(a, Z) ==
    LET s == POSetup(a)
    IN  IF s.err # "none" THEN [err |-> s.err, quote |-> <<>>]
        ELSE IF POAllocRaises(a) THEN [err |-> "ValueError", quote |-> <<>>]
        ELSE LET l == POLoop(POStockPrice0(a), POStockPriceSum0(a),
                             s.const1, s.const2, Z, 1)
             IN  IF MathExpRaises(PODiscountArg(a, s.h))
                 THEN [err |-> "OverflowError", quote |-> <<>>]
                 ELSE [err |-> "none", quote |-> POQuote(a, s.h, l[1], l[2])]

\* the standard-normal draws explored, in whole standard deviations
Draws == {0 - 1, 1}
\* every array of n draws
DrawArrays(n) == [1..n -> Draws]

\* the draws of a whole call: one array of `paths` draws for each of `days` steps
DrawMatrices(nd, np) == [1..nd -> DrawArrays(np)]

\* ------------------------------------------------------ parameter cell
\* lines 633-642, money in units of 1/Scale of a price of 2.0
price0 == 32
rate0 == 1
min_strike == 28
max_strike == 36
min_sigma == 2
max_sigma == 6

\* np.linspace(lo, hi, n): n evenly spaced values from lo to hi inclusive
Linspace(lo, hi, n) ==
    [k \in 1..n |-> IF n = 1 THEN lo ELSE lo + TruncDiv((k - 1) * (hi - lo), n - 1)]

\* --------------------------------------------------------------- state
VARIABLES
    \* the notebook's globals
    price, rate, days, paths, n_strikes, n_sigmas, strike_vals, sigma_vals,
    async_results,      \* the handles, in the order they were appended
    results,            \* the list a completed line 791 binds
    prices,             \* the structured array's cells, flat, in memory order
    shape,              \* its shape; <<>> while it does not exist
    \* the position in the cells being run
    pc, si, sj,         \* the submission loops' strike and sigma index
    gi, got,            \* line 791's position and its list under construction
    ai,                 \* line 813's position
    err,                \* the exception that ended the run, "none" if none
    \* the executor behind the load-balanced view
    tasks,              \* every task it accepted: [args, status, value]
    \* history
    nwrites,            \* how often each cell of prices was assigned
    nsubmit,            \* how often apply_async was called
    overtaken,          \* a task ended while one submitted before it was outstanding
    \* one call of price_options
    po_pc, po_args, h, const1, const2, stock_price, stock_price_sum, j,
    allocated, po_ret, po_err,
    zs,                 \* history: the draws of each iteration run so far
    \* price_options called several times in one process
    rng,                \* the state of the process-wide generator np.random
    calls,              \* each invocation's arguments, locals and position
    \* the MPI notebook: reordering by rank
    mpi_size,           \* the number of engines
    ranks,              \* view['rank']: each engine's MPI rank, by engine id
    rank_indices,       \* np.argsort(ranks)
    seq, ordered,       \* mpi_order's argument and what it returned
    mpi_pc,
    \* the MPI notebook: the simulation threads, by engine
    stop,               \* the engine's global `stop`
    sim_pc,             \* where its simulation thread is
    sim_j,              \* its global j, the step last started (-1: none)
    alive,              \* what the last simulation_alive() returned ("none": not called)
    stop_at, stop_in,   \* history: the steps started, and the thread's
                        \* position, when `stop` was set
    \* the MPI notebook: one call of monitor_simulation
    mon_pc,             \* where the call is
    plots_in_place,     \* its argument
    fig,                \* its local fig (-1: None, 0: a figure with no plot, k: the k-th plot)
    ret,                \* what plot_current_results returned, before it is assigned
    shown,              \* the figure last displayed in the cell's output (-1: none)
    nplots,             \* history: the plots made by the call
    msg,                \* its local msg
    printed,            \* the status line it printed
    alive_at_print,     \* history: was a thread alive when the status was printed
    mon_err,            \* the exception that left the call
    \* the image notebook: one call of search_images
    hits,               \* the search's results in the API's order: does the image pass the filter
    limit0,             \* the argument limit
    limit,              \* the local limit
    sroffset,           \* continue_params: the results already served
    img_results,        \* results: the indices of the batch being looked at
    img_r,              \* the position of the for loop in it
    yielded,            \* the URLs yielded, as indices into hits
    img_pc, img_err,
    \* the graph notebook: one call of wikipedia_graph
    glimit,             \* the argument limit
    in_degree_limit,    \* the argument in_degree_limit
    gnodes, gedges,     \* graph
    enodes, eedges,     \* egraph
    surface,            \* the pages being expanded
    g_i,                \* the position of the loop over surface
    links,              \* links[:20] of surface[g_i]
    g_k,                \* the position of the loop over links
    g_pc

nbVars == <<price, rate, days, paths, n_strikes, n_sigmas, strike_vals, sigma_vals,
            async_results, results, prices, shape, pc, si, sj, gi, got, ai, err,
            tasks, nwrites, nsubmit, overtaken>>
poVars == <<po_pc, po_args, h, const1, const2, stock_price, stock_price_sum, j,
            allocated, po_ret, po_err, zs>>
rngVars == <<rng, calls>>
mpiVars == <<mpi_size, ranks, rank_indices, seq, ordered, mpi_pc>>
simVars == <<stop, sim_pc, sim_j, alive, stop_at, stop_in>>
monVars == <<mon_pc, plots_in_place, fig, ret, shown, nplots, msg, printed,
             alive_at_print, mon_err>>
imgVars == <<hits, limit0, limit, sroffset, img_results, img_r, yielded, img_pc, img_err>>
gphVars == <<glimit, in_degree_limit, gnodes, gedges, enodes, eedges, surface,
             g_i, links, g_k, g_pc>>
webVars == <<imgVars, gphVars>>
extVars == <<rngVars, mpiVars, simVars, monVars, webVars>>
vars == <<nbVars, poVars, extVars>>

NoArgs == [S |-> 0, K |-> 0, sigma |-> 0, r |-> 0, days |-> 0, paths |-> 0]

\* no call of price_options in progress
POIdle ==
    /\ po_pc = "idle" /\ po_args = NoArgs
    /\ h = 0 /\ const1 = 0 /\ const2 = 0
    /\ stock_price = <<>> /\ stock_price_sum = <<>> /\ j = 0
    /\ allocated = FALSE /\ po_ret = <<>> /\ po_err = "none" /\ zs = <<>>

\* no invocation sharing a process
RNGIdle == rng = 0 /\ calls = <<>>

\* the MPI notebook is not open
MPIIdle ==
    /\ mpi_size = 0 /\ ranks = <<>> /\ rank_indices = <<>>
    /\ seq = <<>> /\ ordered = <<>> /\ mpi_pc = "idle"

\* no engine has a simulation
SimIdle ==
    /\ stop = <<>> /\ sim_pc = <<>> /\ sim_j = <<>>
    /\ alive = "none" /\ stop_at = <<>> /\ stop_in = <<>>

\* monitor_simulation has not been called
MonIdle ==
    /\ mon_pc = "idle" /\ plots_in_place = TRUE
    /\ fig = 0 - 1 /\ ret = 0 - 1 /\ shown = 0 - 1 /\ nplots = 0
    /\ msg = "none" /\ printed = "none" /\ alive_at_print = FALSE
    /\ mon_err = "none"

\* search_images has not been called
ImgIdle ==
    /\ hits = <<>> /\ limit0 = 0 /\ limit = 0 /\ sroffset = 0
    /\ img_results = <<>> /\ img_r = 0 /\ yielded = <<>>
    /\ img_pc = "idle" /\ img_err = "none"

\* wikipedia_graph has not been called
GphIdle ==
    /\ glimit = 0 /\ in_degree_limit = 0
    /\ gnodes = {} /\ gedges = {} /\ enodes = {} /\ eedges = {}
    /\ surface = <<>> /\ g_i = 0 /\ links = <<>> /\ g_k = 0
    /\ g_pc = "idle"

\* the other notebooks are not open
WebIdle == ImgIdle /\ GphIdle

\* nothing but the dispatcher or the single call is running
ExtIdle == RNGIdle /\ MPIIdle /\ SimIdle /\ MonIdle /\ WebIdle

\* the grids the dispatcher is explored with
GridSizes ==
    {g \in (1..MaxStrikes) \X (1..MaxSigmas) : g[1] * g[2] <= MaxTasks}

\* the notebook after the parameter cells (lines 633-654) and the view's creation;
\* the horizon (260 days) and the path count (10000) are scaled down to 1 and 1
NBInit(g) ==
    /\ price = price0 /\ rate = rate0 /\ days = 1 /\ paths = 1
    /\ n_strikes = g[1] /\ n_sigmas = g[2]
    /\ strike_vals = Linspace(min_strike, max_strike, g[1])
    /\ sigma_vals = Linspace(min_sigma, max_sigma, g[2])
    /\ async_results = <<>> /\ results = <<>> /\ prices = <<>> /\ shape = <<>>
    /\ pc = "ready" /\ si = 1 /\ sj = 1 /\ gi = 1 /\ got = <<>> /\ ai = 1
    /\ err = "none" /\ tasks = <<>> /\ nwrites = <<>> /\ nsubmit = 0
    /\ overtaken = FALSE

Init == (\E g \in GridSizes : NBInit(g)) /\ POIdle /\ ExtIdle

\* ------------------------------------------------- submission (728-733)
\* lines 728-729
BeginSubmit ==
    /\ pc = "ready"
    /\ async_results' = <<>>
    /\ si' = 1 /\ sj' = 1
    /\ pc' = "submit"
    /\ UNCHANGED <<price, rate, days, paths, n_strikes, n_sigmas, strike_vals,
                   sigma_vals, results, prices, shape, gi, got, ai, err, tasks,
                   nwrites, nsubmit, overtaken>>

\* faulty variant: the strike is not taken from the loop variable
TaskArgsStaleStrike ==
    [S |-> price, K |-> strike_vals[1], sigma |-> sigma_vals[sj], r |-> rate,
     days |-> days, paths |-> paths]

\* the arguments apply_async sends for the loops' current strike and sigma
TaskArgs ==
    [S |-> price, K |-> strike_vals[si], sigma |-> sigma_vals[sj], r |-> rate,
     days |-> days, paths |-> paths]

\* the nested loops' next position: sigma is the inner loop
NextLoopIndex ==
    IF sj < Len(sigma_vals) THEN <<si, sj + 1>> ELSE <<si + 1, 1>>

\* faulty variant: the handle is put at the front of the list
RecordHandleFront(ar) == <<ar>> \o async_results

\* async_results.append(ar)
RecordHandle(ar) == Append(async_results, ar)

\* faulty variant: a synchronous apply, which returns once the task before it has ended
CanSubmitBlocking ==
    /\ pc = "submit" /\ si <= Len(strike_vals)
    /\ \A t \in 1..Len(tasks) : tasks[t].status # "pending"

\* whether apply_async may be called now: it never waits for a task
CanSubmit == pc = "submit" /\ si <= Len(strike_vals)

\* one iteration of the inner loop: lines 732-733
SubmitTask ==
    /\ CanSubmit
    /\ LET ar == Len(tasks) + 1
       IN  /\ tasks' = Append(tasks, [args |-> TaskArgs, status |-> "pending",
                                      value |-> <<>>])
           /\ async_results' = RecordHandle(ar)
    /\ nsubmit' = nsubmit + 1
    /\ si' = NextLoopIndex[1] /\ sj' = NextLoopIndex[2]
    /\ pc' = IF NextLoopIndex[1] > Len(strike_vals) THEN "wait" ELSE "submit"
    /\ UNCHANGED <<price, rate, days, paths, n_strikes, n_sigmas, strike_vals,
                   sigma_vals, results, prices, shape, gi, got, ai, err, nwrites, overtaken>>

\* faulty variant: the exception is caught inside the loop, which goes on
SubmitRaisesCaught ==
    /\ pc = "submit" /\ si <= Len(strike_vals)
    /\ nsubmit' = nsubmit + 1
    /\ err' = "submit"
    /\ si' = (IF sj < Len(sigma_vals) THEN si ELSE si + 1)
    /\ sj' = (IF sj < Len(sigma_vals) THEN sj + 1 ELSE 1)
    /\ pc' = IF si' > Len(strike_vals) THEN "wait" ELSE "submit"
    /\ UNCHANGED <<price, rate, days, paths, n_strikes, n_sigmas, strike_vals,
                   sigma_vals, async_results, results, prices, shape, gi,
                   got, ai, tasks, nwrites, overtaken>>

\* apply_async raises (the executor is unreachable): the exception leaves the cell
SubmitRaises ==
    /\ CanSubmit
    /\ nsubmit' = nsubmit + 1
    /\ pc' = "failed" /\ err' = "submit"
    /\ UNCHANGED <<price, rate, days, paths, n_strikes, n_sigmas, strike_vals,
                   sigma_vals, async_results, results, prices, shape, si, sj, gi,
                   got, ai, tasks, nwrites, overtaken>>

\* ------------------------------------------------------------ executor
NFailed == Cardinality({t \in 1..Len(tasks) : tasks[t].status = "failed"})

\* task t ends while a task submitted before it is still outstanding
Overtakes(t) == \E u \in 1..(t - 1) : tasks[u].status = "pending"

\* an engine runs task t to its end: price_options returns or raises
EngineCompletes(t) ==
    /\ tasks[t].status = "pending"
    /\ \E Z \in DrawMatrices(tasks[t].args.days, tasks[t].args.paths) :
        LET res == PriceOptions(tasks[t].args, Z)
        IN  tasks' = [tasks EXCEPT ![t].status = IF res.err = "none" THEN "ok" ELSE "failed",
                                   ![t].value = res.quote]
    /\ overtaken' = (overtaken \/ Overtakes(t))
    /\ UNCHANGED <<price, rate, days, paths, n_strikes, n_sigmas, strike_vals,
                   sigma_vals, async_results, results, prices, shape, pc, si, sj,
                   gi, got, ai, err, nwrites, nsubmit>>

\* the task ends with an exception of the engine's (the engine died, the function
\* could not be unpickled, ...)
EngineFails(t) ==
    /\ tasks[t].status = "pending"
    /\ NFailed < MaxFailures
    /\ tasks' = [tasks EXCEPT ![t].status = "failed"]
    /\ overtaken' = (overtaken \/ Overtakes(t))
    /\ UNCHANGED <<price, rate, days, paths, n_strikes, n_sigmas, strike_vals,
                   sigma_vals, async_results, results, prices, shape, pc, si, sj,
                   gi, got, ai, err, nwrites, nsubmit>>

\* ------------------------------------------------------ barrier (762)
\* faulty variant: the barrier returns as soon as one handle is done
WaitReturnsFirst ==
    \E k \in 1..Len(async_results) : tasks[async_results[k]].status # "pending"

\* faulty variant: the barrier gives up waiting after a while
WaitReturnsTimeout == TRUE

\* rc.wait(async_results) returns once none of the handles is outstanding
WaitReturns ==
    \A k \in 1..Len(async_results) : tasks[async_results[k]].status # "pending"

WaitAll ==
    /\ pc = "wait"
    /\ WaitReturns
    /\ pc' = "get" /\ gi' = 1 /\ got' = <<>>
    /\ UNCHANGED <<price, rate, days, paths, n_strikes, n_sigmas, strike_vals,
                   sigma_vals, async_results, results, prices, shape, si, sj, ai,
                   err, tasks, nwrites, nsubmit, overtaken>>

\* ---------------------------------------------------- retrieval (791)
\* faulty variant: the handles are read from the last one back
CurrentHandleReversed == async_results[Len(async_results) + 1 - gi]

\* the handle the comprehension is at
CurrentHandle == async_results[gi]

\* faulty variant: a failed task's get returns its (empty) value instead of raising
GetReturnsAlways(ar) == tasks[ar].status # "pending"

\* ar.get() returns a value only for a task that ended without an exception
GetReturns(ar) == tasks[ar].status = "ok"

\* ar.get() returns the task's value; the last one binds `results`
GetResult ==
    /\ pc = "get" /\ gi <= Len(async_results)
    /\ GetReturns(CurrentHandle)
    /\ got' = Append(got, tasks[CurrentHandle].value)
    /\ gi' = gi + 1
    /\ IF gi = Len(async_results)
       THEN results' = got' /\ pc' = "alloc"
       ELSE UNCHANGED <<results, pc>>
    /\ UNCHANGED <<price, rate, days, paths, n_strikes, n_sigmas, strike_vals,
                   sigma_vals, async_results, prices, shape, si, sj, ai, err,
                   tasks, nwrites, nsubmit, overtaken>>

\* ar.get() re-raises the task's exception: the cell ends, `results` is not bound
GetRaises ==
    /\ pc = "get" /\ gi <= Len(async_results)
    /\ tasks[CurrentHandle].status = "failed"
    /\ pc' = "failed" /\ err' = "task"
    /\ UNCHANGED <<price, rate, days, paths, n_strikes, n_sigmas, strike_vals,
                   sigma_vals, async_results, results, prices, shape, si, sj, gi,
                   got, ai, tasks, nwrites, nsubmit, overtaken>>

\* ----------------------------------------------------- assembly (809-816)
\* what the uninitialised memory of np.empty may hold
Garbage == {<<0, 0, 0, 0>>, <<NaN, NaN, NaN, NaN>>}

\* lines 809-811: np.empty(n_strikes*n_sigmas, dtype=...)
AllocPrices ==
    /\ pc = "alloc"
    /\ prices' \in [1..(n_strikes * n_sigmas) -> Garbage]
    /\ shape' = <<n_strikes * n_sigmas>>
    /\ nwrites' = [c \in 1..(n_strikes * n_sigmas) |-> 0]
    /\ ai' = 1
    /\ pc' = "fill"
    /\ UNCHANGED <<price, rate, days, paths, n_strikes, n_sigmas, strike_vals,
                   sigma_vals, async_results, results, si, sj, gi, got, err,
                   tasks, nsubmit, overtaken>>

\* faulty variants: the cells are filled from the end; every result goes to the first cell
FillIndexReversed(i) == n_strikes * n_sigmas + 1 - i
FillIndexFirst(i) == 1

\* the cell that iteration i (from 1) of the loop of line 813 assigns
FillIndex(i) == i

\* lines 813-814: `price` is the loop variable
AssembleCell ==
    /\ pc = "fill" /\ ai <= Len(results)
    /\ FillIndex(ai) \in 1..Len(prices)
    /\ price' = results[ai]
    /\ prices' = [prices EXCEPT ![FillIndex(ai)] = results[ai]]
    /\ nwrites' = [nwrites EXCEPT ![FillIndex(ai)] = @ + 1]
    /\ ai' = ai + 1
    /\ pc' = IF ai = Len(results) THEN "reshape" ELSE "fill"
    /\ UNCHANGED <<rate, days, paths, n_strikes, n_sigmas, strike_vals,
                   sigma_vals, async_results, results, shape, si, sj, gi, got,
                   err, tasks, nsubmit, overtaken>>

\* line 816: prices.shape = (n_strikes, n_sigmas)
Reshape ==
    /\ pc = "reshape"
    /\ n_strikes * n_sigmas = Len(prices)
    /\ shape' = <<n_strikes, n_sigmas>>
    /\ pc' = "done"
    /\ UNCHANGED <<price, rate, days, paths, n_strikes, n_sigmas, strike_vals,
                   sigma_vals, async_results, results, prices, si, sj, gi, got,
                   ai, err, tasks, nwrites, nsubmit, overtaken>>

\* prices[i, j] of the reshaped array (i, j from 0): C order
Cell(i, jj) == prices[i * shape[2] + jj + 1]

Engine ==
    \E t \in 1..Len(tasks) : EngineCompletes(t) \/ EngineFails(t)

Next ==
    \/ (BeginSubmit /\ UNCHANGED <<poVars, extVars>>)
    \/ (SubmitTask /\ UNCHANGED <<poVars, extVars>>)
    \/ (SubmitRaises /\ UNCHANGED <<poVars, extVars>>)
    \/ (Engine /\ UNCHANGED <<poVars, extVars>>)
    \/ (WaitAll /\ UNCHANGED <<poVars, extVars>>)
    \/ (GetResult /\ UNCHANGED <<poVars, extVars>>)
    \/ (GetRaises /\ UNCHANGED <<poVars, extVars>>)
    \/ (AllocPrices /\ UNCHANGED <<poVars, extVars>>)
    \/ (AssembleCell /\ UNCHANGED <<poVars, extVars>>)
    \/ (Reshape /\ UNCHANGED <<poVars, extVars>>)

Spec == Init /\ [][Next]_vars

\* the cells of the dispatcher's own process
Dispatcher ==
    \/ BeginSubmit \/ SubmitTask \/ WaitAll \/ GetResult \/ GetRaises
    \/ AllocPrices \/ AssembleCell \/ Reshape

\* where the dispatcher is: every one of its steps changes it
position == <<pc, si, sj, gi, ai>>

\* the dispatcher's process keeps running: a cell that can go on does, and a
\* call of rc.wait that can return does return.  Nothing makes an engine
\* finish a task.
SpecLive == Spec /\ WF_position(Dispatcher /\ UNCHANGED <<poVars, extVars>>)

\* ------------------------------------------- one call of price_options
\* the arguments a single call is explored with, valid and invalid
POArgValues ==
    {a \in [S : {0 - 16, 0, 16, 32}, K : {0 - 16, 0, 16, 40},
            sigma : {0 - 16, 0, 16, 64}, r : {0 - 64, 0, 16},
            days : (0 - 1)..MaxDays, paths : (0 - 1)..MaxPaths] :
        a.days * a.paths <= MaxDraws}

\* price_options has been called with some arguments
InitPO ==
    /\ NBInit(<<1, 1>>)
    /\ po_pc = "called" /\ po_args \in POArgValues
    /\ h = 0 /\ const1 = 0 /\ const2 = 0
    /\ stock_price = <<>> /\ stock_price_sum = <<>> /\ j = 0
    /\ allocated = FALSE /\ po_ret = <<>> /\ po_err = "none" /\ zs = <<>>
    /\ ExtIdle

\* lines 606-608
POSetupStep ==
    /\ po_pc = "called"
    /\ LET s == POSetup(po_args)
       IN  IF s.err # "none"
           THEN /\ po_pc' = "raised" /\ po_err' = s.err
                /\ UNCHANGED <<h, const1, const2>>
           ELSE /\ h' = s.h /\ const1' = s.const1 /\ const2' = s.const2
                /\ po_pc' = "alloc" /\ UNCHANGED po_err
    /\ UNCHANGED <<po_args, stock_price, stock_price_sum, j, allocated, po_ret, zs>>

\* lines 609-610
POAllocStep ==
    /\ po_pc = "alloc"
    /\ IF POAllocRaises(po_args)
       THEN /\ po_pc' = "raised" /\ po_err' = "ValueError"
            /\ UNCHANGED <<stock_price, stock_price_sum, allocated>>
       ELSE /\ stock_price' = POStockPrice0(po_args)
            /\ stock_price_sum' = POStockPriceSum0(po_args)
            /\ allocated' = TRUE
            /\ po_pc' = "loop" /\ UNCHANGED po_err
    /\ j' = 0
    /\ UNCHANGED <<po_args, h, const1, const2, po_ret, zs>>

\* lines 611-614: one iteration, j counting the iterations done
POStep ==
    /\ po_pc = "loop" /\ j < po_args.days
    /\ \E z \in DrawArrays(po_args.paths) :
        /\ stock_price' = POStepPrice(stock_price, const1, const2, z)
        /\ stock_price_sum' = POStepSum(stock_price_sum, stock_price')
        /\ zs' = Append(zs, z)
    /\ j' = j + 1
    /\ UNCHANGED <<po_pc, po_args, h, const1, const2, allocated, po_ret, po_err>>

\* lines 615-622
POReturn ==
    /\ po_pc = "loop" /\ j >= po_args.days
    /\ IF MathExpRaises(PODiscountArg(po_args, h))
       THEN po_pc' = "raised" /\ po_err' = "OverflowError" /\ UNCHANGED po_ret
       ELSE /\ po_ret' = POQuote(po_args, h, stock_price, stock_price_sum)
            /\ po_pc' = "returned" /\ UNCHANGED po_err
    /\ UNCHANGED <<po_args, h, const1, const2, stock_price, stock_price_sum, j,
                   allocated, zs>>

NextPO ==
    \/ (POSetupStep /\ UNCHANGED <<nbVars, extVars>>)
    \/ (POAllocStep /\ UNCHANGED <<nbVars, extVars>>)
    \/ (POStep /\ UNCHANGED <<nbVars, extVars>>)
    \/ (POReturn /\ UNCHANGED <<nbVars, extVars>>)

SpecPO == InitPO /\ [][NextPO]_vars

\* ------------------------- price_options invoked twice in one process
\* the number of states of the generator explored
RngStates == 8

\* the generator's next state, and its state after k draws
RngNext(s) == (5 * s + 3) % RngStates
RECURSIVE RngAfter(_, _)
RngAfter(s, k) == IF k = 0 THEN s ELSE RngAfter(RngNext(s), k - 1)

\* the draw the generator hands out in state s
RngDraw(s) == IF s % 4 < 2 THEN 0 - 1 ELSE 1

\* line 612, np.random.standard_normal(n) called in state s: the n draws
StandardNormal(s, n) == [p \in 1..n |-> RngDraw(RngAfter(s, p - 1))]

\* the draws of a whole call that no other call of the generator interrupts
StreamFrom(s, nd, np) ==
    [d \in 1..nd |-> StandardNormal(RngAfter(s, (d - 1) * np), np)]

Invocations == {1, 2}

RNGArgValues ==
    [S : {32}, K : {28, 36}, sigma : {16}, r : {0}, days : 1..MaxDays,
     paths : 1..MaxPaths]

\* an invocation that has been called with the arguments a
Called(a) ==
    [pc |-> "called", args |-> a, h |-> 0, const1 |-> 0, const2 |-> 0,
     stock_price |-> <<>>, stock_price_sum |-> <<>>, j |-> 0,
     ret |-> <<>>, err |-> "none", seed |-> 0]

InitRNG ==
    /\ NBInit(<<1, 1>>) /\ POIdle
    /\ rng \in 0..(RngStates - 1)
    /\ calls \in [Invocations -> {Called(a) : a \in RNGArgValues}]
    /\ MPIIdle /\ SimIdle /\ MonIdle /\ WebIdle

\* lines 606-610 of invocation c; seed records the generator's state it starts from
CallBegin(c) ==
    /\ calls[c].pc = "called"
    /\ LET cl == calls[c]
           s == POSetup(cl.args)
       IN  calls' = [calls EXCEPT ![c] =
             IF s.err # "none" THEN [cl EXCEPT !.pc = "raised", !.err = s.err]
             ELSE IF POAllocRaises(cl.args)
             THEN [cl EXCEPT !.pc = "raised", !.err = "ValueError"]
             ELSE [cl EXCEPT !.pc = "loop", !.h = s.h, !.const1 = s.const1,
                             !.const2 = s.const2,
                             !.stock_price = POStockPrice0(cl.args),
                             !.stock_price_sum = POStockPriceSum0(cl.args),
                             !.seed = rng]]
    /\ UNCHANGED rng

\* lines 611-614 of invocation c: one iteration, its draws taken from np.random
CallStep(c) ==
    /\ calls[c].pc = "loop" /\ calls[c].j < calls[c].args.days
    /\ LET cl == calls[c]
           z == StandardNormal(rng, cl.args.paths)
           sp == POStepPrice(cl.stock_price, cl.const1, cl.const2, z)
       IN  calls' = [calls EXCEPT ![c] =
             [cl EXCEPT !.stock_price = sp,
                        !.stock_price_sum = POStepSum(cl.stock_price_sum, sp),
                        !.j = cl.j + 1]]
    /\ rng' = RngAfter(rng, calls[c].args.paths)

\* lines 615-622 of invocation c
CallReturn(c) ==
    /\ calls[c].pc = "loop" /\ calls[c].j >= calls[c].args.days
    /\ LET cl == calls[c]
       IN  calls' = [calls EXCEPT ![c] =
             IF MathExpRaises(PODiscountArg(cl.args, cl.h))
             THEN [cl EXCEPT !.pc = "raised", !.err = "OverflowError"]
             ELSE [cl EXCEPT !.pc = "returned",
                             !.ret = POQuote(cl.args, cl.h, cl.stock_price,
                                             cl.stock_price_sum)]]
    /\ UNCHANGED rng

NextRNG ==
    \/ \E c \in Invocations : CallBegin(c) /\ UNCHANGED <<webVars, nbVars, poVars, mpiVars, simVars, monVars>>
    \/ \E c \in Invocations : CallStep(c) /\ UNCHANGED <<webVars, nbVars, poVars, mpiVars, simVars, monVars>>
    \/ \E c \in Invocations : CallReturn(c) /\ UNCHANGED <<webVars, nbVars, poVars, mpiVars, simVars, monVars>>

SpecRNG == InitRNG /\ [][NextRNG]_vars

\* ------------------------------------- MPI notebook: mpi_order (133-140)
\* the ways n engines can hold the MPI ranks 0..n-1, by engine id
RankAssignments(n) ==
    {r \in [1..n -> 0..(n - 1)] : \A a, b \in 1..n : r[a] = r[b] => a = b}

\* what the engines hand back for a gather, by engine id
SeqValues == {"u", "v", "w"}

\* np.argsort(r): the (0-based) positions of r's elements in ascending order of
\* value, the earlier position first among equals; `left` are the positions
\* not yet placed
RECURSIVE ArgsortFrom(_, _)
ArgsortFrom(r, left) ==
    IF left = {} THEN <<>>
    ELSE LET x == CHOOSE a \in left :
                    \A b \in left : r[a] < r[b] \/ (r[a] = r[b] /\ a <= b)
         IN  <<x - 1>> \o ArgsortFrom(r, left \ {x})
Argsort(r) == ArgsortFrom(r, DOMAIN r)

\* faulty variant: the sequence is indexed with the ranks themselves
MpiOrderByRanks(sq) == [k \in 1..Len(ranks) |-> sq[ranks[k] + 1]]

\* lines 136-140: [seq[x] for x in rank_indices]
MpiOrder(sq) == [k \in 1..Len(rank_indices) |-> sq[rank_indices[k] + 1]]

InitMPI ==
    /\ NBInit(<<1, 1>>) /\ POIdle /\ RNGIdle /\ SimIdle /\ MonIdle /\ WebIdle
    /\ mpi_size \in 1..MaxEngines
    /\ ranks = <<>> /\ rank_indices = <<>> /\ seq = <<>> /\ ordered = <<>>
    /\ mpi_pc = "connected"

\* line 133: ranks = view['rank']
PullRanks ==
    /\ mpi_pc = "connected"
    /\ ranks' \in RankAssignments(mpi_size)
    /\ mpi_pc' = "pulled"
    /\ UNCHANGED <<mpi_size, rank_indices, seq, ordered>>

\* line 134: rank_indices = np.argsort(ranks)
SortRanks ==
    /\ mpi_pc = "pulled"
    /\ rank_indices' = Argsort(ranks)
    /\ mpi_pc' = "sorted"
    /\ UNCHANGED <<mpi_size, ranks, seq, ordered>>

\* a call of mpi_order with what a gather over the engines returned
CallMpiOrder ==
    /\ mpi_pc = "sorted"
    /\ \E sq \in [1..mpi_size -> SeqValues] :
        seq' = sq /\ ordered' = MpiOrder(sq)
    /\ mpi_pc' = "ordered"
    /\ UNCHANGED <<mpi_size, ranks, rank_indices>>

NextMPI ==
    \/ (PullRanks /\ UNCHANGED <<webVars, nbVars, poVars, rngVars, simVars, monVars>>)
    \/ (SortRanks /\ UNCHANGED <<webVars, nbVars, poVars, rngVars, simVars, monVars>>)
    \/ (CallMpiOrder /\ UNCHANGED <<webVars, nbVars, poVars, rngVars, simVars, monVars>>)

SpecMPI == InitMPI /\ [][NextMPI]_vars

\* ------------------------- MPI notebook: the simulation thread (190-217)
\* line 417, nsteps = 100, scaled down
nsteps == 3

\* the engines, by id
EngineIds == {0, 1}

\* the thread is between its start and its end
Running(e) == sim_pc[e] \in {"for", "body", "test"}

\* the steps engine e's thread has started
Started(e) == sim_j[e] + 1

InitSim ==
    /\ NBInit(<<1, 1>>) /\ POIdle /\ RNGIdle /\ MPIIdle /\ MonIdle /\ WebIdle
    /\ stop = [e \in EngineIds |-> FALSE]
    /\ sim_pc = [e \in EngineIds |-> "none"]
    /\ sim_j = [e \in EngineIds |-> 0 - 1]
    /\ alive = "none"
    /\ stop_at = [e \in EngineIds |-> 0 - 1]
    /\ stop_in = [e \in EngineIds |-> "unset"]

\* lines 414-423 on engine e: stop = False, the thread is created and started
StartThread(e) ==
    /\ sim_pc[e] = "none"
    /\ stop' = [stop EXCEPT ![e] = FALSE]
    /\ sim_pc' = [sim_pc EXCEPT ![e] = "for"]
    /\ UNCHANGED <<sim_j, alive, stop_at, stop_in>>

\* line 204, for j in range(nsteps): the next j, or the end of the loop
ForNext(e) ==
    /\ sim_pc[e] = "for"
    /\ IF sim_j[e] + 1 < nsteps
       THEN /\ sim_j' = [sim_j EXCEPT ![e] = @ + 1]
            /\ sim_pc' = [sim_pc EXCEPT ![e] = "body"]
       ELSE /\ sim_pc' = [sim_pc EXCEPT ![e] = "dead"]
            /\ UNCHANGED sim_j
    /\ UNCHANGED <<stop, alive, stop_at, stop_in>>

\* lines 205-213: the step's computation and time.sleep(delay)
StepBody(e) ==
    /\ sim_pc[e] = "body"
    /\ sim_pc' = [sim_pc EXCEPT ![e] = "test"]
    /\ UNCHANGED <<stop, sim_j, alive, stop_at, stop_in>>

\* faulty variant: the flag is never looked at
BreaksLoopNever(e) == FALSE

\* line 216: if stop
BreaksLoop(e) == stop[e]

\* lines 216-217: if stop: break
StopTest(e) ==
    /\ sim_pc[e] = "test"
    /\ sim_pc' = [sim_pc EXCEPT ![e] = IF BreaksLoop(e) THEN "dead" ELSE "for"]
    /\ UNCHANGED <<stop, sim_j, alive, stop_at, stop_in>>

\* line 481, view['stop'] = True, arriving on engine e, whose main thread
\* assigns the global while the simulation thread is wherever it is
SetStop(e) ==
    /\ sim_pc[e] # "none" /\ ~stop[e]
    /\ stop' = [stop EXCEPT ![e] = TRUE]
    /\ stop_at' = [stop_at EXCEPT ![e] = Started(e)]
    /\ stop_in' = [stop_in EXCEPT ![e] = sim_pc[e]]
    /\ UNCHANGED <<sim_pc, sim_j, alive>>

\* lines 315-318: any(view.apply_sync(lambda : simulation_thread.is_alive()))
SimulationAlive ==
    /\ \A e \in EngineIds : sim_pc[e] # "none"
    /\ alive' = IF \E e \in EngineIds : Running(e) THEN "True" ELSE "False"
    /\ UNCHANGED <<stop, sim_pc, sim_j, stop_at, stop_in>>

\* one step of engine e's simulation thread
Thread(e) == ForNext(e) \/ StepBody(e) \/ StopTest(e)

NextSim ==
    \/ \E e \in EngineIds : StartThread(e) /\ UNCHANGED <<webVars, nbVars, poVars, rngVars, mpiVars, monVars>>
    \/ \E e \in EngineIds : ForNext(e) /\ UNCHANGED <<webVars, nbVars, poVars, rngVars, mpiVars, monVars>>
    \/ \E e \in EngineIds : StepBody(e) /\ UNCHANGED <<webVars, nbVars, poVars, rngVars, mpiVars, monVars>>
    \/ \E e \in EngineIds : StopTest(e) /\ UNCHANGED <<webVars, nbVars, poVars, rngVars, mpiVars, monVars>>
    \/ \E e \in EngineIds : SetStop(e) /\ UNCHANGED <<webVars, nbVars, poVars, rngVars, mpiVars, monVars>>
    \/ (SimulationAlive /\ UNCHANGED <<webVars, nbVars, poVars, rngVars, mpiVars, monVars>>)

\* every started thread gets to run, and the client keeps asking
SpecSim ==
    /\ InitSim /\ [][NextSim]_vars
    /\ \A e \in EngineIds :
        WF_simVars(Thread(e) /\ UNCHANGED <<webVars, nbVars, poVars, rngVars, mpiVars, monVars>>)
    /\ WF_simVars(SimulationAlive /\ UNCHANGED <<webVars, nbVars, poVars, rngVars, mpiVars, monVars>>)

\* ------------------------------------------- monitor_simulation (MPI notebook)
\* the plots one call is explored with
MaxPlots == 2

\* line 204, nx = 2+j/4 (integer division), with a new column every second
\* step in place of every fourth, as nsteps is scaled down
nx_every == 2
MeshNx(jj) == 2 + (jj \div nx_every)

\* the step whose Z engine e's namespace holds (-1: Z is not defined yet)
ZStep(e) == IF sim_pc[e] = "body" THEN sim_j[e] - 1 ELSE sim_j[e]

\* line 274, view['Z']: the name is missing on some engine
ZUndefined == \E e \in EngineIds : ZStep(e) < 0

\* line 274, np.concatenate: the engines' blocks differ in their second dimension
DimensionMismatch ==
    \E e1, e2 \in EngineIds : MeshNx(ZStep(e1)) # MeshNx(ZStep(e2))

\* the notebook's cells run one at a time: no other cell while the call runs
MonActive == mon_pc \notin {"idle", "returned", "raised"}

\* the positions within the try statement of lines 372-376
InTry == mon_pc \in {"while", "plot", "assign", "sleep"}

InitMon ==
    /\ NBInit(<<1, 1>>) /\ POIdle /\ RNGIdle /\ MPIIdle /\ WebIdle
    /\ stop = [e \in EngineIds |-> FALSE]
    /\ sim_pc = [e \in EngineIds |-> "none"]
    /\ sim_j = [e \in EngineIds |-> 0 - 1]
    /\ alive = "none"
    /\ stop_at = [e \in EngineIds |-> 0 - 1]
    /\ stop_in = [e \in EngineIds |-> "unset"]
    /\ mon_pc = "idle" /\ plots_in_place \in BOOLEAN
    /\ fig = 0 - 1 /\ ret = 0 - 1 /\ shown = 0 - 1 /\ nplots = 0
    /\ msg = "none" /\ printed = "none" /\ alive_at_print = FALSE
    /\ mon_err = "none"

\* lines 257-289, plot_current_results, called from position `at` and going
\* on at `next`: the remote NameError leaves the call, the ValueError is
\* caught and a figure with no plot is returned undisplayed, and otherwise
\* the new plot is displayed and returned
PlotCurrentResults(at, next) ==
    /\ mon_pc = at
    /\ IF ZUndefined
       THEN /\ mon_pc' = "raised" /\ mon_err' = "RemoteError"
            /\ UNCHANGED <<ret, shown, nplots>>
       ELSE IF DimensionMismatch
       THEN /\ mon_pc' = next /\ ret' = 0
            /\ UNCHANGED <<shown, nplots, mon_err>>
       ELSE /\ nplots < MaxPlots
            /\ mon_pc' = next /\ ret' = nplots + 1
            /\ shown' = nplots + 1 /\ nplots' = nplots + 1
            /\ UNCHANGED mon_err
    /\ UNCHANGED <<plots_in_place, fig, msg, printed, alive_at_print>>
    /\ UNCHANGED simVars

\* the cell calling monitor_simulation, run once the threads were started
MonCall ==
    /\ mon_pc = "idle"
    /\ \A e \in EngineIds : sim_pc[e] # "none"
    /\ mon_pc' = "check0"
    /\ UNCHANGED <<plots_in_place, fig, ret, shown, nplots, msg, printed,
                   alive_at_print, mon_err>>
    /\ UNCHANGED simVars

\* line 364: if not simulation_alive()
MonCheck0 ==
    /\ mon_pc = "check0"
    /\ SimulationAlive
    /\ mon_pc' = IF alive' = "True" THEN "t0" ELSE "plot0"
    /\ UNCHANGED <<plots_in_place, fig, ret, shown, nplots, msg, printed,
                   alive_at_print, mon_err>>

\* line 365: plot_current_results(in_place=plots_in_place), its value dropped
MonPlot0 == PlotCurrentResults("plot0", "print0")

\* lines 366-368: the figures are closed, the status printed, and the call returns
MonPrint0 ==
    /\ mon_pc = "print0"
    /\ printed' = "finished"
    /\ alive_at_print' = \E e \in EngineIds : Running(e)
    /\ mon_pc' = "returned"
    /\ UNCHANGED <<plots_in_place, fig, ret, shown, nplots, msg, mon_err>>
    /\ UNCHANGED simVars

\* lines 370-371: t0 = dt.datetime.now(); fig = None
MonT0 ==
    /\ mon_pc = "t0"
    /\ fig' = 0 - 1
    /\ mon_pc' = "while"
    /\ UNCHANGED <<plots_in_place, ret, shown, nplots, msg, printed,
                   alive_at_print, mon_err>>
    /\ UNCHANGED simVars

\* line 373, while simulation_alive(), and the else clause of line 380
MonWhile ==
    /\ mon_pc = "while"
    /\ SimulationAlive
    /\ IF alive' = "True"
       THEN mon_pc' = "plot" /\ UNCHANGED msg
       ELSE mon_pc' = "tmon" /\ msg' = "completed"
    /\ UNCHANGED <<plots_in_place, fig, ret, shown, nplots, printed,
                   alive_at_print, mon_err>>

\* line 374, the call of plot_current_results
MonPlot == PlotCurrentResults("plot", "assign")

\* line 374, the assignment to fig of what the call returned
MonAssign ==
    /\ mon_pc = "assign"
    /\ fig' = ret
    /\ mon_pc' = "sleep"
    /\ UNCHANGED <<plots_in_place, ret, shown, nplots, msg, printed,
                   alive_at_print, mon_err>>
    /\ UNCHANGED simVars

\* lines 375-376: plt.close('all'); time.sleep(refresh)
MonSleep ==
    /\ mon_pc = "sleep"
    /\ mon_pc' = "while"
    /\ UNCHANGED <<plots_in_place, fig, ret, shown, nplots, msg, printed,
                   alive_at_print, mon_err>>
    /\ UNCHANGED simVars

\* faulty variant: the handler covers nothing
HandlesInterruptNowhere == FALSE

\* lines 372-378: the KeyboardInterrupt is handled where the try statement is
HandlesInterrupt == InTry

\* the user interrupts the kernel while the call is at any of its positions:
\* lines 377-378 handle it within the try statement, elsewhere it leaves the call
MonInterrupt ==
    /\ MonActive
    /\ IF HandlesInterrupt
       THEN mon_pc' = "tmon" /\ msg' = "ongoing" /\ UNCHANGED mon_err
       ELSE mon_pc' = "raised" /\ mon_err' = "KeyboardInterrupt" /\ UNCHANGED msg
    /\ UNCHANGED <<plots_in_place, fig, ret, shown, nplots, printed, alive_at_print>>
    /\ UNCHANGED simVars

\* line 381: tmon = dt.datetime.now() - t0
MonTmon ==
    /\ mon_pc = "tmon"
    /\ mon_pc' = "redisplay"
    /\ UNCHANGED <<plots_in_place, fig, ret, shown, nplots, msg, printed,
                   alive_at_print, mon_err>>
    /\ UNCHANGED simVars

\* lines 382-385: if plots_in_place and fig is not None, fig replaces the output
MonRedisplay ==
    /\ mon_pc = "redisplay"
    /\ shown' = IF plots_in_place /\ fig # 0 - 1 THEN fig ELSE shown
    /\ mon_pc' = "print"
    /\ UNCHANGED <<plots_in_place, fig, ret, nplots, msg, printed,
                   alive_at_print, mon_err>>
    /\ UNCHANGED simVars

\* lines 386-387: print(msg), the timing, and the call returns
MonPrint ==
    /\ mon_pc = "print"
    /\ printed' = msg
    /\ alive_at_print' = \E e \in EngineIds : Running(e)
    /\ mon_pc' = "returned"
    /\ UNCHANGED <<plots_in_place, fig, ret, shown, nplots, msg, mon_err>>
    /\ UNCHANGED simVars

\* lines 474-481, the cell setting stop, run before or after the monitoring cell
StopCell(e) == ~MonActive /\ SetStop(e) /\ UNCHANGED monVars

NextMon ==
    \/ \E e \in EngineIds : StartThread(e) /\ UNCHANGED <<webVars, nbVars, poVars, rngVars, mpiVars, monVars>>
    \/ \E e \in EngineIds : ForNext(e) /\ UNCHANGED <<webVars, nbVars, poVars, rngVars, mpiVars, monVars>>
    \/ \E e \in EngineIds : StepBody(e) /\ UNCHANGED <<webVars, nbVars, poVars, rngVars, mpiVars, monVars>>
    \/ \E e \in EngineIds : StopTest(e) /\ UNCHANGED <<webVars, nbVars, poVars, rngVars, mpiVars, monVars>>
    \/ \E e \in EngineIds : StopCell(e) /\ UNCHANGED <<webVars, nbVars, poVars, rngVars, mpiVars>>
    \/ (MonCall /\ UNCHANGED <<webVars, nbVars, poVars, rngVars, mpiVars>>)
    \/ (MonCheck0 /\ UNCHANGED <<webVars, nbVars, poVars, rngVars, mpiVars>>)
    \/ (MonPlot0 /\ UNCHANGED <<webVars, nbVars, poVars, rngVars, mpiVars>>)
    \/ (MonPrint0 /\ UNCHANGED <<webVars, nbVars, poVars, rngVars, mpiVars>>)
    \/ (MonT0 /\ UNCHANGED <<webVars, nbVars, poVars, rngVars, mpiVars>>)
    \/ (MonWhile /\ UNCHANGED <<webVars, nbVars, poVars, rngVars, mpiVars>>)
    \/ (MonPlot /\ UNCHANGED <<webVars, nbVars, poVars, rngVars, mpiVars>>)
    \/ (MonAssign /\ UNCHANGED <<webVars, nbVars, poVars, rngVars, mpiVars>>)
    \/ (MonSleep /\ UNCHANGED <<webVars, nbVars, poVars, rngVars, mpiVars>>)
    \/ (MonInterrupt /\ UNCHANGED <<webVars, nbVars, poVars, rngVars, mpiVars>>)
    \/ (MonTmon /\ UNCHANGED <<webVars, nbVars, poVars, rngVars, mpiVars>>)
    \/ (MonRedisplay /\ UNCHANGED <<webVars, nbVars, poVars, rngVars, mpiVars>>)
    \/ (MonPrint /\ UNCHANGED <<webVars, nbVars, poVars, rngVars, mpiVars>>)

SpecMon == InitMon /\ [][NextMon]_vars

\* ------------------------------------------------ search_images (part_000)
\* the search results and the limits one call is explored with
MaxHits == 4
MaxLimit == 3

\* line 81, srlimit=min(limit, 50): the batch size, scaled down
srlimit_max == 2

Min(a, b) == IF a <= b THEN a ELSE b

\* the runs of booleans of length n
BoolSeqs(n) == [1..n -> BOOLEAN]

\* the images of the search that pass line 95's mime and size test
Passing(hs) == {i \in 1..Len(hs) : hs[i]}

\* the indices first+1 .. last, in order
IndexRun(first, last) == [i \in 1..(last - first) |-> first + i]

InitImg ==
    /\ NBInit(<<1, 1>>) /\ POIdle /\ RNGIdle /\ MPIIdle /\ SimIdle /\ MonIdle /\ GphIdle
    /\ hits \in UNION {BoolSeqs(n) : n \in 0..MaxHits}
    /\ limit0 \in 0..MaxLimit
    /\ limit = limit0
    /\ sroffset = 0 /\ img_results = <<>> /\ img_r = 0 /\ yielded = <<>>
    /\ img_pc = "while" /\ img_err = "none"

\* line 81: srlimit=min(limit, 50)
BatchSize(l) == Min(l, srlimit_max)

\* the API answers with 'query-continue' when results remain after the batch
MoreResults(last) == last < Len(hits)

\* lines 75-86: the loop test, the search request for the next batch, and
\* continue_params = data['query-continue']['search'], a KeyError when the
\* answer has no such key
ImgSearch ==
    /\ img_pc = "while"
    /\ IF limit <= 0
       THEN /\ img_pc' = "done"
            /\ UNCHANGED <<sroffset, img_results, img_r, img_err>>
       ELSE LET last == Min(sroffset + BatchSize(limit), Len(hits))
            IN  IF MoreResults(last)
                THEN /\ sroffset' = last
                     /\ img_results' = IndexRun(sroffset, last)
                     /\ img_r' = 1
                     /\ img_pc' = "for"
                     /\ UNCHANGED img_err
                ELSE /\ img_pc' = "raised" /\ img_err' = "KeyError"
                     /\ UNCHANGED <<sroffset, img_results, img_r>>
    /\ UNCHANGED <<hits, limit0, limit, yielded>>

\* line 87: the batch is used up, back to the loop test
ImgBatchEnd ==
    /\ img_pc = "for" /\ img_r > Len(img_results)
    /\ img_pc' = "while"
    /\ UNCHANGED <<hits, limit0, limit, sroffset, img_results, img_r, yielded, img_err>>

\* lines 88-99: the imageinfo request for the next result, the filter, the
\* yield, and the return once limit URLs were yielded
ImgResult ==
    /\ img_pc = "for" /\ img_r <= Len(img_results)
    /\ IF hits[img_results[img_r]]
       THEN /\ yielded' = Append(yielded, img_results[img_r])
            /\ limit' = limit - 1
            /\ img_pc' = IF limit - 1 <= 0 THEN "done" ELSE "for"
       ELSE UNCHANGED <<yielded, limit, img_pc>>
    /\ img_r' = img_r + 1
    /\ UNCHANGED <<hits, limit0, sroffset, img_results, img_err>>

NextImg ==
    \/ (ImgSearch /\ UNCHANGED <<gphVars, nbVars, poVars, rngVars, mpiVars, simVars, monVars>>)
    \/ (ImgBatchEnd /\ UNCHANGED <<gphVars, nbVars, poVars, rngVars, mpiVars, simVars, monVars>>)
    \/ (ImgResult /\ UNCHANGED <<gphVars, nbVars, poVars, rngVars, mpiVars, simVars, monVars>>)

SpecImg == InitImg /\ [][NextImg]_vars

\* ---------------------------------------------- wikipedia_graph (part_000)
\* the pages, the links of a page and the arguments one crawl is explored with
NPages == 3
MaxLinks == 3
MaxGraphLimit == 2
MaxInDegreeLimit == 2

\* line 370, links[:20]: the links kept of a page, scaled down
links_kept == 2

Pages == 0..(NPages - 1)
root == 0

\* what links_for_page may return: the titles linked from the page, in order
LinkLists == UNION {[1..n -> Pages] : n \in 0..MaxLinks}

\* s[:n]
Truncated(s, n) == SubSeq(s, 1, Min(Len(s), n))

Range(s) == {s[i] : i \in 1..Len(s)}

\* DiGraph.in_degree, out_degree, predecessors, successors
InDegree(es, n) == Cardinality({e \in es : e[2] = n})
OutDegree(es, n) == Cardinality({e \in es : e[1] = n})
Predecessors(es, n) == {e[1] : e \in {d \in es : d[2] = n}}
Successors(es, n) == {e[2] : e \in {d \in es : d[1] = n}}

\* the walks over the nodes ns along the edges es that lead from a to b
Walks(ns, es, a, b) ==
    {p \in UNION {[1..m -> ns] : m \in 1..Cardinality(ns)} :
        /\ p[1] = a /\ p[Len(p)] = b
        /\ \A i \in 1..(Len(p) - 1) : <<p[i], p[i + 1]>> \in es}

\* nx.shortest_path(graph, a, b): one of the shortest of them
ShortestPaths(ns, es, a, b) ==
    LET ws == Walks(ns, es, a, b)
    IN  {p \in ws : \A q \in ws : Len(p) <= Len(q)}

\* the orders in which a set may be iterated
Orders(S) ==
    {f \in [1..Cardinality(S) -> S] : \A i, k \in 1..Cardinality(S) : f[i] = f[k] => i = k}

InitGph ==
    /\ NBInit(<<1, 1>>) /\ POIdle /\ RNGIdle /\ MPIIdle /\ SimIdle /\ MonIdle /\ ImgIdle
    /\ glimit \in 1..MaxGraphLimit
    /\ in_degree_limit \in 1..MaxInDegreeLimit
    /\ gnodes = {root} /\ gedges = {}
    /\ enodes = {root} /\ eedges = {}
    /\ surface = <<root>> /\ g_i = 0 /\ links = <<>> /\ g_k = 0
    /\ g_pc = "while"

\* lines 365-367: the loop test, and the pages without outgoing links are
\* handed to links_for_page
GWhile ==
    /\ g_pc = "while"
    /\ IF Cardinality(enodes) < glimit
       THEN /\ surface' \in Orders({n \in gnodes : OutDegree(gedges, n) = 0})
            /\ g_i' = 1
            /\ g_pc' = "srcs"
       ELSE /\ g_pc' = "done"
            /\ UNCHANGED <<surface, g_i>>
    /\ UNCHANGED <<glimit, in_degree_limit, gnodes, gedges, enodes, eedges, links, g_k>>

\* lines 368-371 and add_links (329-340): the links of the next page of the
\* surface, cut to the first links_kept, become nodes and edges of graph
GAddLinks ==
    /\ g_pc = "srcs" /\ g_i <= Len(surface)
    /\ \E ls \in LinkLists :
        LET kept == Truncated(ls, links_kept)
            src == surface[g_i]
        IN  /\ links' = kept
            /\ gnodes' = gnodes \cup {src} \cup Range(kept)
            /\ gedges' = gedges \cup {<<src, kept[i]>> : i \in 1..Len(kept)}
    /\ g_k' = 1
    /\ g_pc' = "nodes"
    /\ UNCHANGED <<glimit, in_degree_limit, enodes, eedges, surface, g_i>>

\* line 368: the surface is used up, back to the loop test
GSurfaceEnd ==
    /\ g_pc = "srcs" /\ g_i > Len(surface)
    /\ g_pc' = "while"
    /\ UNCHANGED <<glimit, in_degree_limit, gnodes, gedges, enodes, eedges,
                   surface, g_i, links, g_k>>

\* lines 382-383: the parents of node that are in egraph
ParentsShown(node, drawn) == Predecessors(gedges, node) \cap drawn

\* faulty variant of line 387: every child is drawn
ChildrenShownAll(node, drawn) == Successors(gedges, node)

\* lines 386-387: the children of node that are in egraph
ChildrenShown(node, drawn) == Successors(gedges, node) \cap drawn

\* lines 375-381: the pages of the path enter egraph
ShownWithPath(path) == enodes \cup Range(path)

\* lines 374-389 for a node and the path found to it: the path's pages and
\* edges, then the edges from the parents and to the children that are in
\* egraph (an edge added to a DiGraph brings its ends with it)
EgraphNodesWith(node, path) ==
    LET drawn == ShownWithPath(path)
    IN  drawn \cup ParentsShown(node, drawn) \cup ChildrenShown(node, drawn)

EgraphEdgesWith(node, path) ==
    LET drawn == ShownWithPath(path)
    IN  eedges
        \cup {<<path[i], path[i + 1]>> : i \in 1..(Len(path) - 1)}
        \cup {<<p, node>> : p \in ParentsShown(node, drawn)}
        \cup {<<node, c>> : c \in ChildrenShown(node, drawn)}

\* lines 372-392: the next link of the page; a node linked from
\* in_degree_limit pages is drawn with a shortest path to it, and the crawl
\* returns once egraph has more than limit nodes
GNode ==
    /\ g_pc = "nodes" /\ g_k <= Len(links)
    /\ LET node == links[g_k]
       IN  IF InDegree(gedges, node) >= in_degree_limit
           THEN \E path \in ShortestPaths(gnodes, gedges, root, node) :
                    /\ enodes' = EgraphNodesWith(node, path)
                    /\ eedges' = EgraphEdgesWith(node, path)
           ELSE UNCHANGED <<enodes, eedges>>
    /\ IF Cardinality(enodes') > glimit
       THEN g_pc' = "done" /\ UNCHANGED g_k
       ELSE g_pc' = "nodes" /\ g_k' = g_k + 1
    /\ UNCHANGED <<glimit, in_degree_limit, gnodes, gedges, surface, g_i, links>>

\* lines 393-394: the page's links are used up, on to the next page
GLinksEnd ==
    /\ g_pc = "nodes" /\ g_k > Len(links)
    /\ g_i' = g_i + 1
    /\ g_pc' = "srcs"
    /\ UNCHANGED <<glimit, in_degree_limit, gnodes, gedges, enodes, eedges,
                   surface, links, g_k>>

NextGph ==
    \/ (GWhile /\ UNCHANGED <<imgVars, nbVars, poVars, rngVars, mpiVars, simVars, monVars>>)
    \/ (GAddLinks /\ UNCHANGED <<imgVars, nbVars, poVars, rngVars, mpiVars, simVars, monVars>>)
    \/ (GSurfaceEnd /\ UNCHANGED <<imgVars, nbVars, poVars, rngVars, mpiVars, simVars, monVars>>)
    \/ (GNode /\ UNCHANGED <<imgVars, nbVars, poVars, rngVars, mpiVars, simVars, monVars>>)
    \/ (GLinksEnd /\ UNCHANGED <<imgVars, nbVars, poVars, rngVars, mpiVars, simVars, monVars>>)

SpecGph == InitGph /\ [][NextGph]_vars

\* ---------------------------------------------------------- properties
NCells == n_strikes * n_sigmas
AllSubmitted == Len(tasks) = NCells
AllEnded == \A t \in 1..Len(tasks) : tasks[t].status # "pending"
FailedHandles ==
    {k \in 1..Len(async_results) : tasks[async_results[k]].status = "failed"}
Assembling == pc \in {"alloc", "fill", "reshape", "done"}

\* the parameters the pricing contract calls valid
ValidArgs(a) == a.S > 0 /\ a.K > 0 /\ a.sigma >= 0 /\ a.days >= 1 /\ a.paths >= 1

\* C1: whatever order the tasks ended in, once the dispatch is done cell (i, j)
\* of the reshaped grid holds the value of the task that was submitted with
\* strike_vals[i] and sigma_vals[j].
C1_CellHoldsItsTasksQuote ==
    pc = "done" =>
        \A i \in 0..(Len(strike_vals) - 1), jj \in 0..(Len(sigma_vals) - 1) :
            /\ \E t \in 1..Len(tasks) :
                /\ tasks[t].args.K = strike_vals[i + 1]
                /\ tasks[t].args.sigma = sigma_vals[jj + 1]
            /\ \A t \in 1..Len(tasks) :
                (/\ tasks[t].args.K = strike_vals[i + 1]
                 /\ tasks[t].args.sigma = sigma_vals[jj + 1])
                    => (tasks[t].status = "ok" /\ Cell(i, jj) = tasks[t].value)

\* a finished 2 x 3 grid whose tasks did not end in submission order
C1_Witness == pc = "done" /\ overtaken /\ n_strikes = 2 /\ n_sigmas = 3

\* C2: while the grid exists it has n_strikes*n_sigmas cells, none assigned
\* twice; when the dispatch is done every cell has been assigned exactly once.
C2_EachCellWrittenOnce ==
    /\ shape # <<>> =>
        /\ Len(prices) = NCells /\ Len(nwrites) = NCells
        /\ shape \in {<<NCells>>, <<n_strikes, n_sigmas>>}
        /\ \A c \in 1..NCells : nwrites[c] <= 1
    /\ pc = "done" =>
        /\ shape = <<n_strikes, n_sigmas>>
        /\ \A c \in 1..NCells : nwrites[c] = 1

\* a finished 3 x 2 grid
C2_Witness ==
    /\ pc = "done" /\ n_strikes = 3 /\ n_sigmas = 2
    /\ \A c \in 1..Len(nwrites) : nwrites[c] = 1

\* C3: with a failed task among the submitted ones the dispatch never gets to
\* assemble a grid; it ends with the task's exception at the get of the first
\* failed handle, `results` unbound and no grid allocated.
C3_FailedTaskEndsTheRun ==
    /\ FailedHandles # {} =>
        (~Assembling /\ shape = <<>> /\ results = <<>>)
    /\ err = "task" =>
        /\ pc = "failed" /\ gi \in FailedHandles
        /\ \A k \in 1..(gi - 1) : k \notin FailedHandles

\* the run ended at the get of the one failed task, after earlier gets returned
C3_Witness ==
    /\ err = "task" /\ pc = "failed" /\ gi >= 2
    /\ Cardinality(FailedHandles) = 1

\* C4: no get has been made and no cell written before every task of the grid
\* was submitted and has ended; the k-th value retrieved is the k-th submitted
\* task's.
C4_BarrierBeforeRetrieval ==
    /\ (pc = "get" \/ Assembling \/ err = "task" \/ got # <<>> \/ shape # <<>>)
        => (AllSubmitted /\ AllEnded)
    /\ Len(got) <= Len(tasks)
    /\ \A k \in 1..Len(got) : got[k] = tasks[k].value /\ tasks[k].status = "ok"

\* the first get has returned, after tasks ended out of submission order
C4_Witness ==
    pc = "get" /\ gi = 2 /\ Len(got) = 1 /\ overtaken /\ Len(async_results) >= 4

\* C5: the tasks are submitted in strike-major order, one per pair: the k-th
\* (from 0) carries strike_vals[k div n] and sigma_vals[k mod n] with the
\* fixed S, r, days and paths, and the k-th handle is that task's.
C5_StrikeMajorSubmission ==
    /\ Len(tasks) <= NCells
    /\ Len(async_results) = Len(tasks)
    /\ (pc = "wait" \/ pc = "get" \/ Assembling) => AllSubmitted
    /\ \A k \in 0..(Len(tasks) - 1) :
        /\ tasks[k + 1].args =
              [S |-> price0, K |-> strike_vals[(k \div n_sigmas) + 1],
               sigma |-> sigma_vals[(k % n_sigmas) + 1], r |-> rate0,
               days |-> days, paths |-> paths]
        /\ async_results[k + 1] = k + 1
    /\ \A t, u \in 1..Len(tasks) :
        t # u => <<tasks[t].args.K, tasks[t].args.sigma>>
                    # <<tasks[u].args.K, tasks[u].args.sigma>>

\* all six tasks of a 2 x 3 grid have been submitted
C5_Witness == pc = "wait" /\ n_strikes = 2 /\ n_sigmas = 3 /\ Len(tasks) = 6

\* C6: while tasks remain to be submitted the next apply_async can be made
\* whatever the state of the tasks submitted before it.
C6_SubmissionNeverWaits ==
    (pc = "submit" /\ si <= Len(strike_vals)) => ENABLED SubmitTask

\* every task of a grid of at least four has been submitted and none has ended
C6_Witness ==
    /\ pc = "wait" /\ AllSubmitted /\ NCells >= 4
    /\ \A t \in 1..Len(tasks) : tasks[t].status = "pending"

\* C7: apply_async is called at most once per grid point, failures or not, and
\* every value retrieved or written into the grid is the value its own task
\* returned, never one standing in for a failed task.
C7_NoRetryNoSubstitute ==
    /\ nsubmit <= NCells
    /\ \A t, u \in 1..Len(tasks) :
        t # u => <<tasks[t].args.K, tasks[t].args.sigma>>
                    # <<tasks[u].args.K, tasks[u].args.sigma>>
    /\ \A k \in 1..Len(got) :
        /\ tasks[async_results[k]].status = "ok"
        /\ got[k] = tasks[async_results[k]].value
    /\ \A c \in 1..Len(nwrites) :
        nwrites[c] >= 1 =>
            /\ tasks[async_results[c]].status = "ok"
            /\ prices[c] = tasks[async_results[c]].value

\* a run over at least four grid points in which a task failed
C7_Witness ==
    /\ err = "task" /\ nsubmit = NCells /\ NCells >= 4
    /\ Len(got) >= 1

\* C8: once apply_async has raised, the run is over: the call that raised
\* queued no task, no further call is made, no handle is recorded, and no
\* result list or grid comes to exist.
C8_SubmitFailureEndsTheRun ==
    /\ [](err = "submit" =>
            /\ pc = "failed"
            /\ Len(tasks) = nsubmit - 1 /\ Len(async_results) = Len(tasks)
            /\ results = <<>> /\ got = <<>> /\ shape = <<>>)
    /\ [][err = "submit" =>
            /\ nsubmit' = nsubmit /\ Len(tasks') = Len(tasks)
            /\ async_results' = async_results
            /\ pc' = pc /\ err' = err /\ shape' = shape /\ results' = results]_vars

\* the third apply_async raised while a task submitted before it was running
C8_Witness ==
    /\ err = "submit" /\ nsubmit = 3
    /\ \E t \in 1..Len(tasks) : tasks[t].status = "pending"

\* C9 as stated: a call with an invalid parameter allocates no buffer and
\* returns nothing.
C9_InvalidArgsFailFast ==
    ~ValidArgs(po_args) => (~allocated /\ po_pc # "returned" /\ po_ret = <<>>)

\* C9 amended: only days <= 0 and paths < 0 end the call before a buffer
\* exists; no other parameter is checked, so a call with days >= 1 and
\* paths >= 0 allocates its buffers and raises nothing but OverflowError.
C9_OnlyDaysAndNegativePathsRaise ==
    /\ (po_args.days <= 0 \/ po_args.paths < 0) =>
        (~allocated /\ po_pc \in {"called", "alloc", "raised"} /\ po_ret = <<>>)
    /\ (po_pc # "called" /\ po_args.days <= 0) =>
        (po_pc = "raised" /\ po_err \in {"ZeroDivisionError", "ValueError", "OverflowError"})
    /\ (po_pc \notin {"called", "alloc"} /\ po_args.paths < 0) =>
        (po_pc = "raised" /\ po_err \in {"ZeroDivisionError", "ValueError", "OverflowError"})
    /\ (po_pc \in {"loop", "returned"}) =>
        (po_args.days >= 1 /\ po_args.paths >= 0 /\ allocated)
    /\ (po_pc = "raised" /\ po_args.days >= 1 /\ po_args.paths >= 0) =>
        po_err = "OverflowError"

\* a call with a negative path count ended at the allocation
C9_Witness ==
    /\ po_pc = "raised" /\ po_err = "ValueError" /\ ~allocated
    /\ po_args.paths < 0 /\ po_args.days >= 1

\* C10 as stated: with valid arguments each of the four returned values is a
\* number >= 0.
C10_QuoteNonNegative ==
    (po_pc = "returned" /\ ValidArgs(po_args)) =>
        \A k \in 1..4 : ~IsNaN(po_ret[k]) /\ po_ret[k] >= 0

\* ---------------------------------------------- price_options, the values
\* the discount factor of a returned call: exp(-r*h*days)
DiscountFactor == NpExp(FMulInt(FMul(FNeg(po_args.r), h), po_args.days))
\* discount factor times the mean over the paths of max(0, payoff)
DiscountedMean(payoff) ==
    FMul(DiscountFactor,
         NpMean([p \in 1..po_args.paths |-> FMaximum(0, payoff[p])]))
\* a path's arithmetic average as the buffers hold it at the return
AveragePrice == [p \in 1..po_args.paths |-> FDivInt(stock_price_sum[p], po_args.days)]

\* C11: a returned call's tuple is (euro_call, euro_put, asian_call, asian_put)
\* in that order, each the discount factor times the mean over the paths of
\* max(0, terminal - K), max(0, K - terminal), max(0, average - K) and
\* max(0, K - average).
C11_QuoteIsDiscountedMeanPayoff ==
    po_pc = "returned" =>
        /\ Len(po_ret) = 4
        /\ po_ret[1] = DiscountedMean([p \in 1..po_args.paths |->
                                          FSub(stock_price[p], po_args.K)])
        /\ po_ret[2] = DiscountedMean([p \in 1..po_args.paths |->
                                          FSub(po_args.K, stock_price[p])])
        /\ po_ret[3] = DiscountedMean([p \in 1..po_args.paths |->
                                          FSub(AveragePrice[p], po_args.K)])
        /\ po_ret[4] = DiscountedMean([p \in 1..po_args.paths |->
                                          FSub(po_args.K, AveragePrice[p])])

\* a returned valid call over two paths whose calls and puts differ
C11_Witness ==
    /\ po_pc = "returned" /\ ValidArgs(po_args) /\ po_args.paths = 2
    /\ \A k \in 1..4 : IsFinite(po_ret[k])
    /\ po_ret[1] # po_ret[2] /\ po_ret[3] # po_ret[4]
    /\ po_ret[1] > 0 /\ po_ret[3] > 0

\* <<the price of path p after k updates, the sum of its first k updated
\* prices>>, from the draws the loop consumed
RECURSIVE Replay(_, _)
Replay(k, p) ==
    IF k = 0 THEN <<po_args.S, 0>>
    ELSE LET before == Replay(k - 1, p)
             updated == FMul(before[1],
                             FMul(const1, NpExp(FMulInt(const2, zs[k][p]))))
         IN  <<updated, FAdd(before[2], updated)>>
PriceAfter(k, p) == Replay(k, p)[1]
SumOfUpdated(k, p) == Replay(k, p)[2]

\* C12: the loop body runs exactly `days` times; every run multiplies each
\* path's price by that step's growth factor and then adds the updated price
\* to the running sum, so the terminal price is the price after `days` updates
\* and the average is the sum of the `days` updated prices (S not among them)
\* divided by days.
C12_LoopRunsDaysTimes ==
    allocated =>
        /\ Len(zs) = j /\ j <= po_args.days
        /\ \A p \in 1..po_args.paths :
            LET now == Replay(j, p)
            IN  stock_price[p] = now[1] /\ stock_price_sum[p] = now[2]
        /\ po_pc \in {"returned", "raised"} => j = po_args.days
        /\ po_pc = "returned" =>
            po_ret[3] = DiscountedMean([p \in 1..po_args.paths |->
                            FSub(FDivInt(stock_price_sum[p], po_args.days), po_args.K)])

\* a returned two-day call whose start price, first and second updated prices
\* all differ
C12_Witness ==
    /\ po_pc = "returned" /\ ValidArgs(po_args) /\ po_args.days = 2
    /\ po_args.paths >= 1 /\ j = 2
    /\ IsFinite(stock_price[1]) /\ IsFinite(stock_price_sum[1])
    /\ PriceAfter(1, 1) # po_args.S
    /\ PriceAfter(2, 1) # PriceAfter(1, 1)
    /\ stock_price_sum[1] = PriceAfter(1, 1) + PriceAfter(2, 1)

\* the price of every path after k updates when sigma is 0
RECURSIVE DeterministicPrice(_)
DeterministicPrice(k) ==
    IF k = 0 THEN po_args.S ELSE FMul(DeterministicPrice(k - 1), const1)

\* C13: with sigma = 0 every path has the same price at every step whatever
\* the draws, a call with the same S, K, r, days, paths and any other draws
\* returns the same four values, and the European call and put are the
\* discounted deterministic payoff.
C13_ZeroSigmaIsDeterministic ==
    (po_args.sigma = 0 /\ allocated) =>
        /\ \A p \in 1..po_args.paths : stock_price[p] = DeterministicPrice(j)
        /\ po_pc = "returned" =>
            /\ \A Z \in DrawMatrices(po_args.days, po_args.paths) :
                PriceOptions(po_args, Z) = [err |-> "none", quote |-> po_ret]
            /\ po_args.paths >= 1 =>
                /\ po_ret[1] = FMul(DiscountFactor,
                       FMaximum(0, FSub(DeterministicPrice(po_args.days), po_args.K)))
                /\ po_ret[2] = FMul(DiscountFactor,
                       FMaximum(0, FSub(po_args.K, DeterministicPrice(po_args.days))))

\* a returned call with sigma = 0 over two days and two paths whose draws
\* differ between the paths and between the days, and whose call is positive
C13_Witness ==
    /\ po_pc = "returned" /\ po_args.sigma = 0 /\ ValidArgs(po_args)
    /\ po_args.days = 2 /\ po_args.paths = 2
    /\ zs[1][1] # zs[1][2] /\ zs[1][1] # zs[2][1]
    /\ po_ret[1] > 0 /\ IsFinite(po_ret[1])
    /\ DeterministicPrice(2) # po_args.S

\* a <= b as IEEE 754 compares: false when either side is nan
FLe(a, b) == ~IsNaN(a) /\ ~IsNaN(b) /\ a <= b

\* the strikes a returned call is compared with
OtherStrikes == {16, 24, 40}

\* C14: with S, sigma, r, days, paths and the draws fixed, a strike K2 at or
\* above the call's own K gives calls that are no larger and puts that are no
\* smaller.
C14_StrikeMonotone ==
    (po_pc = "returned" /\ ValidArgs(po_args)) =>
        \A K2 \in OtherStrikes \cup {po_args.K} :
            K2 >= po_args.K =>
                LET q2 == PriceOptions([po_args EXCEPT !.K = K2], zs).quote
                IN  /\ FLe(q2[1], po_ret[1]) /\ FLe(q2[3], po_ret[3])
                    /\ FLe(po_ret[2], q2[2]) /\ FLe(po_ret[4], q2[4])

\* the same comparison over the returned calls none of whose values is nan
C14_MonotoneUnlessNaN ==
    (po_pc = "returned" /\ ValidArgs(po_args)
        /\ \A k \in 1..4 : ~IsNaN(po_ret[k])) =>
        \A K2 \in OtherStrikes \cup {po_args.K} :
            K2 >= po_args.K =>
                LET q2 == PriceOptions([po_args EXCEPT !.K = K2], zs).quote
                IN  \A k \in 1..4 : ~IsNaN(q2[k]) =>
                    /\ q2[1] <= po_ret[1] /\ q2[3] <= po_ret[3]
                    /\ po_ret[2] <= q2[2] /\ po_ret[4] <= q2[4]

\* -------------------------------------------- price_options, re-entrancy
\* C15: an invocation changes nothing another invocation reads, the state of
\* the random-number generator included, so what it returns is what it would
\* return from the same starting point with no other invocation interleaved.
C15_ResultIndependentOfInterleaving ==
    \A c \in Invocations :
        calls[c].pc = "returned" =>
            calls[c].ret =
                PriceOptions(calls[c].args,
                             StreamFrom(calls[c].seed, calls[c].args.days,
                                        calls[c].args.paths)).quote

\* ------------------------------------------------------------ the barrier
SomePending == \E t \in 1..Len(tasks) : tasks[t].status = "pending"
PastBarrier == pc = "get" \/ Assembling \/ got # <<>> \/ shape # <<>>

\* C16: the barrier has no timeout.  In a run where some submitted task stays
\* outstanding for ever the dispatcher never gets past rc.wait and no grid
\* comes to exist; once the dispatcher waits and every task has ended, it gets
\* past.
C16_BarrierWaitsForEver ==
    /\ (<>[]SomePending) => [](~PastBarrier /\ prices = <<>>)
    /\ (pc = "wait" /\ AllEnded) ~> (pc = "get")

\* the dispatcher is at the barrier and exactly the first task is outstanding
C16_Witness ==
    /\ pc = "wait" /\ AllSubmitted /\ Len(tasks) >= 4
    /\ tasks[1].status = "pending"
    /\ \A t \in 2..Len(tasks) : tasks[t].status # "pending"

\* ------------------------------------------------------- the grid's cells
\* cell c of the flat array has been assigned
Written(c) == c <= Len(nwrites) /\ nwrites[c] >= 1

\* C17: the grid is built as results arrive: once a task's result has arrived
\* its cell gets written.
C17_CellWrittenWhenResultArrives ==
    \A t \in 1..MaxTasks :
        (t <= Len(tasks) /\ tasks[t].status = "ok") ~> Written(t)

\* C17 amended: the grid is built in one pass after the barrier and after
\* every result has been retrieved: the array exists only when every task was
\* submitted and ended without an exception and `results` holds their values
\* in submission order; the cells are then assigned in submission order, cell
\* c from the c-th submitted task, so the finished grid is the same whatever
\* order the results arrived in.
C17_GridBuiltAfterAllResults ==
    /\ shape # <<>> =>
        /\ AllSubmitted /\ AllEnded /\ FailedHandles = {}
        /\ Len(results) = NCells
        /\ \A c \in 1..NCells : results[c] = tasks[c].value
        /\ \A c \in 1..NCells :
            /\ nwrites[c] = (IF c < ai THEN 1 ELSE 0)
            /\ c < ai => prices[c] = tasks[c].value
    /\ shape = <<>> => prices = <<>>
    /\ pc = "done" => ai = NCells + 1

\* the assembly is half-way through a grid whose results arrived out of order
C17_Witness ==
    /\ pc = "fill" /\ ai = 3 /\ overtaken /\ Len(tasks) >= 4
    /\ Written(2) /\ ~Written(3)

\* ------------------------------------------------------------ mpi_order
\* how often the value v occurs in the sequence sq
Occurrences(sq, v) == Cardinality({k \in 1..Len(sq) : sq[k] = v})

\* C19: with the ranks a permutation of 0..n-1 and a sequence of n elements
\* in engine-id order, mpi_order puts engine e's element at position ranks[e],
\* and what it returns is a permutation of the sequence.
C19_MpiOrderIsRankOrder ==
    mpi_pc = "ordered" =>
        /\ Len(ordered) = Len(seq)
        /\ \A e \in 0..(mpi_size - 1) : ordered[ranks[e + 1] + 1] = seq[e + 1]
        /\ \A v \in SeqValues : Occurrences(ordered, v) = Occurrences(seq, v)

\* three engines whose ranks are the notebook's rotation (engine e has rank
\* e+1, the last one rank 0) and whose elements all differ
C19_Witness ==
    /\ mpi_pc = "ordered" /\ mpi_size = 3
    /\ ranks = <<1, 2, 0>>
    /\ seq = <<"u", "v", "w">> /\ ordered = <<"w", "u", "v">>

\* ------------------------------------------------------- the stop flag
\* the flag is set on every engine
AllStopped == \A e \in EngineIds : stop[e]

\* C20: once `stop` is True on an engine its thread starts no further step
\* and ends, and once it is True on all of them simulation_alive() comes to
\* return False.
C20_StopStartsNoFurtherStep ==
    /\ [][\A e \in EngineIds : stop[e] => sim_j'[e] = sim_j[e]]_vars
    /\ \A e \in EngineIds : stop[e] ~> (sim_pc[e] = "dead")
    /\ AllStopped ~> (alive = "False")

\* C20 amended: a flag set while the thread is inside a step (before that
\* step's `if stop`) lets no further step start; a flag set after the test,
\* before the loop takes its next j, lets exactly that one step more run
\* to its own test.  Either way the thread ends, and once the flag is set on
\* all engines simulation_alive() comes to return False.
C20_StopEndsThreadWithinOneStep ==
    /\ [](\A e \in EngineIds :
            /\ stop_in[e] \in {"body", "test"} => Started(e) = stop_at[e]
            /\ stop_in[e] = "for" => Started(e) <= stop_at[e] + 1
            /\ (stop[e] /\ sim_pc[e] = "dead") =>
                (Started(e) <= stop_at[e] + 1 /\ Started(e) <= nsteps))
    /\ \A e \in EngineIds : stop[e] ~> (sim_pc[e] = "dead")
    /\ AllStopped ~> (alive = "False")

\* a flag set inside the first step has ended both threads after one step
\* each, and simulation_alive() has returned False
C20_Witness ==
    /\ \A e \in EngineIds :
        /\ stop[e] /\ stop_in[e] = "body" /\ stop_at[e] = 1
        /\ sim_pc[e] = "dead" /\ Started(e) = 1
    /\ alive = "False" /\ nsteps > 1

\* ------------------------------------------------- the pricing inputs
\* Python's a == b for values that may be of different types (a number and a
\* tuple are unequal, not an error)
PyEq(a, b) == ToString(a) = ToString(b)

\* C26: once the grid has been assembled the notebook's price, rate, days
\* and paths hold what they held before the submission, so a second run of
\* the submission cell would send the same S, r, days and paths.
C26_InputsUnchangedByAssembly ==
    pc \in {"reshape", "done"} =>
        /\ PyEq(price, price0)
        /\ rate = rate0 /\ days = 1 /\ paths = 1

\* what of C26 does hold: rate, days and paths are never assigned
C26_RateDaysPathsUnchanged == rate = rate0 /\ days = 1 /\ paths = 1

\* ------------------------------------------------- monitor_simulation
\* C21: a KeyboardInterrupt arriving at any point of a call of
\* monitor_simulation is suppressed: it never leaves the call.
C21_InterruptNeverPropagates == mon_err # "KeyboardInterrupt"

\* what of C21 does hold: an interrupt that left the call arrived outside
\* the monitoring loop, so no status line was printed after it
C21_PropagatesOnlyOutsideLoop ==
    mon_err = "KeyboardInterrupt" => printed = "none" /\ mon_pc = "raised"

\* C22: when a call of monitor_simulation that made a plot of the results
\* returns, the most recent of its plots is the figure on display.
C22_LastPlotDisplayedOnReturn ==
    mon_pc = "returned" /\ nplots > 0 => shown = nplots

\* C25: the status printed is true when it is printed: 'Simulation
\* completed!' with no thread alive, 'Monitoring interrupted, simulation is
\* ongoing!' with a thread alive on some engine.
C25_StatusTrueWhenPrinted ==
    /\ printed = "completed" => ~alive_at_print
    /\ printed = "ongoing" => alive_at_print

\* what of C25 does hold: 'Simulation completed!' is printed with no thread alive
C25_CompletedIsTrue == printed = "completed" => ~alive_at_print

\* ------------------------------------------------------ search_images
\* the generator is over: it returned or an exception left it
ImgOver == img_pc \in {"done", "raised"}

\* C23: search_images never yields more than limit URLs, and once it is over
\* it has yielded exactly limit of them whenever at least limit of the
\* search's images pass the filter.
C23_YieldsLimit ==
    /\ Len(yielded) <= limit0
    /\ ImgOver /\ Cardinality(Passing(hits)) >= limit0 => Len(yielded) = limit0

\* what of C23 does hold: never more than limit URLs, each a passing image
\* of the search, in the API's order and without repetition
C23_NeverMoreThanLimit ==
    /\ Len(yielded) <= limit0
    /\ \A i \in 1..Len(yielded) : yielded[i] \in Passing(hits)
    /\ \A i, k \in 1..Len(yielded) : i < k => yielded[i] < yielded[k]

\* ---------------------------------------------------- wikipedia_graph
\* the page is linked from in_degree_limit pages of the crawled graph
LinkedFromSeveral(n) == InDegree(gedges, n) >= in_degree_limit

====
